---- MODULE Spec2Model ----
(***************************************************************************)
(* A model of the sntprs SNTP client (src/sntprs/src): the wire codec of   *)
(* the 48-byte packet, the request/response exchange of `request`, the     *)
(* validation pipeline and time calculation of `process_response`, and the *)
(* normalising constructor `NtpResult::new`.                               *)
(*                                                                         *)
(* Machine integers are kept at their full width.  A u32 is a pair and a   *)
(* u64 a quadruple of 16-bit limbs, most significant limb first, so that   *)
(* every value of the source (u32::MAX, 2_208_988_800, 64-bit timestamps)  *)
(* is represented exactly.  An i64 is the same quadruple read in two's     *)
(* complement.  Arithmetic that can overflow returns the wrapped value     *)
(* together with an overflow flag: a build with overflow checks (debug)    *)
(* panics when the flag is set, a build without them (release) keeps the   *)
(* wrapped value.                                                          *)
(***************************************************************************)
EXTENDS Integers, Sequences, FiniteSets, TLC

\* ------------------------------------------------------------------------
\* Fixed-width integers as limb sequences
\* ------------------------------------------------------------------------

\* a limb holds 16 bits, a byte 8
Limb == 2 ^ 16
HalfLimb == 2 ^ 15
Byte == 2 ^ 8

\* the u32 with value n, for 0 <= n < 2^31
U32(n) == <<n \div Limb, n % Limb>>

\* the u64 with value n, for 0 <= n < 2^31
U64(n) == <<0, 0, n \div Limb, n % Limb>>

Zero32 == <<0, 0>>
Zero64 == <<0, 0, 0, 0>>
U32_MAX == <<Limb - 1, Limb - 1>>
U64_MAX == <<Limb - 1, Limb - 1, Limb - 1, Limb - 1>>
I64_MAX == <<HalfLimb - 1, Limb - 1, Limb - 1, Limb - 1>>
I64_MIN == <<HalfLimb, 0, 0, 0>>

\* carry into limb i from the less significant limbs of a + b
RECURSIVE CarryIn(_, _, _)
CarryIn(a, b, i) ==
    IF i = Len(a) THEN 0
    ELSE (a[i + 1] + b[i + 1] + CarryIn(a, b, i + 1)) \div Limb

\* borrow out of limb i+1.. when computing a - b
RECURSIVE BorrowIn(_, _, _)
BorrowIn(a, b, i) ==
    IF i = Len(a) THEN 0
    ELSE IF a[i + 1] - b[i + 1] - BorrowIn(a, b, i + 1) < 0 THEN 1 ELSE 0

\* a + b modulo 2^w
WrappingAdd(a, b) ==
    [i \in 1..Len(a) |-> (a[i] + b[i] + CarryIn(a, b, i)) % Limb]

\* a - b modulo 2^w
WrappingSub(a, b) ==
    [i \in 1..Len(a) |-> (a[i] - b[i] - BorrowIn(a, b, i) + 2 * Limb) % Limb]

\* unsigned comparison a < b
ULt(a, b) == BorrowIn(a, b, 0) = 1

\* unsigned a + b does not fit the width
UAddOverflows(a, b) == CarryIn(a, b, 0) = 1

\* unsigned a - b is below zero
USubOverflows(a, b) == ULt(a, b)

\* sign bit of the two's complement reading
IsNeg(a) == a[1] >= HalfLimb

\* signed a + b leaves the i64 range
IAddOverflows(a, b) ==
    IsNeg(a) = IsNeg(b) /\ IsNeg(WrappingAdd(a, b)) # IsNeg(a)

\* signed a - b leaves the i64 range
ISubOverflows(a, b) ==
    IsNeg(a) # IsNeg(b) /\ IsNeg(WrappingSub(a, b)) # IsNeg(a)

\* two's complement negation (wrapping)
WrappingNeg(a) == WrappingSub([i \in 1..Len(a) |-> 0], a)

\* logical shift right by one bit
Shr1(a) ==
    [i \in 1..Len(a) |->
        (a[i] \div 2) + (IF i > 1 THEN (a[i - 1] % 2) * HalfLimb ELSE 0)]

\* i64 / 2, truncating toward zero (Rust's `/` on signed integers)
IDiv2(a) ==
    IF IsNeg(a) THEN WrappingNeg(Shr1(WrappingNeg(a))) ELSE Shr1(a)

\* i64::abs: the wrapped value; i64::MIN has no absolute value
WrappingAbs(a) == IF IsNeg(a) THEN WrappingNeg(a) ELSE a
AbsOverflows(a) == a = I64_MIN

\* quotient and remainder of unsigned a by unsigned d (d > 0), by repeated
\* subtraction; the quotient is a small natural number
RECURSIVE UDivMod(_, _)
UDivMod(a, d) ==
    IF ULt(a, d) THEN [quot |-> 0, rem |-> a]
    ELSE LET r == UDivMod(WrappingSub(a, d), d)
         IN  [quot |-> r.quot + 1, rem |-> r.rem]

\* `x >> 32` then `as u32`: the high half of a u64
High32(x) == <<x[1], x[2]>>

\* `x & 0xffff_ffff` then `as u32`: the low half of a u64
Low32(x) == <<x[3], x[4]>>

\* u64::from(u32)
Widen(x) == <<0, 0, x[1], x[2]>>

\* `x << 32` on a u64: the bits shifted out are lost
Shl32(x) == <<x[3], x[4], 0, 0>>

\* ------------------------------------------------------------------------
\* Bytes
\* ------------------------------------------------------------------------

\* to_be_bytes: the bytes of a value, most significant byte first
to_be_bytes(v) ==
    [k \in 1..(2 * Len(v)) |->
        IF k % 2 = 1 THEN v[(k + 1) \div 2] \div Byte
                     ELSE v[k \div 2] % Byte]

\* from_le_bytes: the value whose least significant byte is b[1]
from_le_bytes(b) ==
    [i \in 1..(Len(b) \div 2) |->
        b[Len(b) - 2 * i + 2] * Byte + b[Len(b) - 2 * i + 1]]

\* from_be_bytes: the value whose most significant byte is b[1]
from_be_bytes(b) ==
    [i \in 1..(Len(b) \div 2) |-> b[2 * i - 1] * Byte + b[2 * i]]

\* swap_bytes: the value with its bytes in reverse order
swap_bytes(v) ==
    [i \in 1..Len(v) |->
        (v[Len(v) - i + 1] % Byte) * Byte + (v[Len(v) - i + 1] \div Byte)]

\* `b as i8` for a byte b, and `x as u8` for an i8 x
as_i8(b) == IF b >= 128 THEN b - Byte ELSE b
as_u8(x) == (x + Byte) % Byte

\* elements first..last (1-based, inclusive) of a sequence
Slice(s, first, last) == [k \in 1..(last - first + 1) |-> s[first + k - 1]]

\* bitwise and of two naturals
RECURSIVE BitAnd(_, _)
BitAnd(a, b) ==
    IF a = 0 \/ b = 0 THEN 0
    ELSE (a % 2) * (b % 2) + 2 * BitAnd(a \div 2, b \div 2)

\* x >> n on a natural
RECURSIVE ShiftRight(_, _)
ShiftRight(x, n) == IF n = 0 THEN x ELSE ShiftRight(x \div 2, n - 1)

\* ------------------------------------------------------------------------
\* State
\* ------------------------------------------------------------------------

VARIABLES
    build,           \* "debug": overflow checks panic; "release": they wrap
    host,            \* byte order of the host: "little" or "big"
    platform,        \* "unix" or "windows": what recv_from does with a
                     \* datagram longer than the buffer
    pc,              \* position of the running call
    req,             \* request: the request packet `req`
    dest,            \* request: the resolved candidate addresses
    next_addr,       \* process_request: index of the next candidate
    sent,            \* every send_to so far: <<address, bytes, result>>
    expected,        \* request: the address process_request returned
    datagram,        \* the datagram delivered to recv_from: src and payload
    buf,             \* request: the receive buffer
    response,        \* request: the byte count recv_from returned
    src,             \* request: the source address recv_from returned
    recv_timestamp,  \* request: the local receive time (T4)
    decoded,         \* the packet process_response decoded and corrected,
                     \* NoPacket while it has not run
    outcome,         \* what the call returned (or how it ended)
    receives,        \* request: how many times recv_from was called
    arg              \* arguments of a direct call of a pure function

vars == <<build, host, platform, pc, req, dest, next_addr, sent, expected,
          datagram, buf, response, src, recv_timestamp, decoded, outcome,
          receives, arg>>

\* ------------------------------------------------------------------------
\* Constants of the source
\* ------------------------------------------------------------------------

MODE_MASK == 7
MODE_SHIFT == 0
VERSION_MASK == 56
VERSION_SHIFT == 3
LI_MASK == 192
LI_SHIFT == 6
NSEC_IN_SEC == U32(1000000000)
NTP_PACKET_SIZE == 48
\* 2_208_988_800 = 33706 * 65536 + 32384
NTP_TIMESTAMP_DELTA == <<33706, 32384>>
SNTP_CLIENT_MODE == 3
SNTP_VERSION == 32
SNTP_UNICAST == 4
SNTP_BROADCAST == 5
LI_MAX_VALUE == 3

\* mem::size_of::<NtpPacket>(): four u64, three u32 and four bytes
SizeOfNtpPacket == 4 * 8 + 3 * 4 + 4

\* ------------------------------------------------------------------------
\* Results of a call: Ok(value), Err(error) or a panic
\* ------------------------------------------------------------------------

\* no value: what a call that returned no Ok carries
NoValue == [none |-> TRUE]

\* what the validation pipeline yields when every check passes
Passed == "passed"
Ok(v) == [kind |-> "Ok", val |-> v, err |-> ""]
Err(e) == [kind |-> "Err", val |-> NoValue, err |-> e]
Panic(m) == [kind |-> "panic", val |-> NoValue, err |-> m]
Running == [kind |-> "running", val |-> NoValue, err |-> ""]

\* the panic of an arithmetic overflow in a build with overflow checks
OverflowPanic == Panic("arithmetic overflow")

\* the error values of the source, under the names of the error kinds
ResolutionError == "failed to lookup address information"
NoServerAvailable == "SNTP servers not responding"
TransportError == "transport"
SourceMismatch == "SNTP response port / address mismatch"
MalformedResponse == "Incorrect NTP packet size read"
OriginTimestampMismatch == "Incorrect origin timestamp"
InvalidMode == "Incorrect MODE value"
InvalidLeapIndicator == "Incorrect LI value"
VersionMismatch == "Incorrect response version"
InvalidStratum == "Incorrect STRATUM headers"

\* ------------------------------------------------------------------------
\* NtpResult
\* ------------------------------------------------------------------------

\* NtpResult::new: the carry of nsec into sec is a u32 addition
NtpResult_new(sec, nsec, roundtrip, offset) ==
    LET d == UDivMod(nsec, NSEC_IN_SEC)
        residue == U32(d.quot)
    IN  IF build = "debug" /\ UAddOverflows(sec, residue)
        THEN OverflowPanic
        ELSE Ok([sec |-> WrappingAdd(sec, residue),
                 nsec |-> d.rem,
                 roundtrip |-> roundtrip,
                 offset |-> offset])

\* ------------------------------------------------------------------------
\* Packet model and wire codec
\* ------------------------------------------------------------------------

\* get_ntp_timestamp for a clock reading of secs seconds (a u64) and
\* micros microseconds (a natural below 1_000_000) since the Unix epoch
get_ntp_timestamp(secs, micros) ==
    WrappingAdd(Shl32(WrappingAdd(secs, Widen(NTP_TIMESTAMP_DELTA))),
                U64(micros))

\* NtpPacket::new, given the timestamp get_ntp_timestamp returned
NtpPacket_new(tx_timestamp) ==
    [li_vn_mode |-> SNTP_CLIENT_MODE + SNTP_VERSION,
     stratum |-> 0,
     poll |-> 0,
     precision |-> 0,
     root_delay |-> Zero32,
     root_dispersion |-> Zero32,
     ref_id |-> Zero32,
     ref_timestamp |-> Zero64,
     origin_timestamp |-> Zero64,
     recv_timestamp |-> Zero64,
     tx_timestamp |-> tx_timestamp]

\* a decode that reads every multi-byte field most significant byte first
NtpPacket_from_big_endian(val) ==
    [li_vn_mode |-> val[1],
     stratum |-> val[2],
     poll |-> as_i8(val[3]),
     precision |-> as_i8(val[4]),
     root_delay |-> from_be_bytes(Slice(val, 5, 8)),
     root_dispersion |-> from_be_bytes(Slice(val, 9, 12)),
     ref_id |-> from_be_bytes(Slice(val, 13, 16)),
     ref_timestamp |-> from_be_bytes(Slice(val, 17, 24)),
     origin_timestamp |-> from_be_bytes(Slice(val, 25, 32)),
     recv_timestamp |-> from_be_bytes(Slice(val, 33, 40)),
     tx_timestamp |-> from_be_bytes(Slice(val, 41, 48))]

\* impl From<RawNtpPacket> for NtpPacket (lib.rs)
NtpPacket_from(val) ==
    [li_vn_mode |-> val[1],
     stratum |-> val[2],
     poll |-> as_i8(val[3]),
     precision |-> as_i8(val[4]),
     root_delay |-> from_le_bytes(Slice(val, 5, 8)),
     root_dispersion |-> from_le_bytes(Slice(val, 9, 12)),
     ref_id |-> from_le_bytes(Slice(val, 13, 16)),
     ref_timestamp |-> from_le_bytes(Slice(val, 17, 24)),
     origin_timestamp |-> from_le_bytes(Slice(val, 25, 32)),
     recv_timestamp |-> from_le_bytes(Slice(val, 33, 40)),
     tx_timestamp |-> from_le_bytes(Slice(val, 41, 48))]

\* an encode that writes every multi-byte field least significant byte first
RawNtpPacket_from_little_endian(val) ==
    <<val.li_vn_mode, val.stratum, as_u8(val.poll), as_u8(val.precision)>>
        \o to_be_bytes(swap_bytes(val.root_delay))
        \o to_be_bytes(swap_bytes(val.root_dispersion))
        \o to_be_bytes(swap_bytes(val.ref_id))
        \o to_be_bytes(swap_bytes(val.ref_timestamp))
        \o to_be_bytes(swap_bytes(val.origin_timestamp))
        \o to_be_bytes(swap_bytes(val.recv_timestamp))
        \o to_be_bytes(swap_bytes(val.tx_timestamp))

\* impl From<&NtpPacket> for RawNtpPacket (lib.rs)
RawNtpPacket_from(val) ==
    <<val.li_vn_mode, val.stratum, as_u8(val.poll), as_u8(val.precision)>>
        \o to_be_bytes(val.root_delay)
        \o to_be_bytes(val.root_dispersion)
        \o to_be_bytes(val.ref_id)
        \o to_be_bytes(val.ref_timestamp)
        \o to_be_bytes(val.origin_timestamp)
        \o to_be_bytes(val.recv_timestamp)
        \o to_be_bytes(val.tx_timestamp)

\* impl From<RawPacket> for NtpPacket (ntppacket.rs)
NtpPacket_from_RawPacket(val) ==
    [li_vn_mode |-> val[1],
     stratum |-> val[2],
     poll |-> as_i8(val[3]),
     precision |-> as_i8(val[4]),
     root_delay |-> from_le_bytes(Slice(val, 5, 8)),
     root_dispersion |-> from_le_bytes(Slice(val, 9, 12)),
     ref_id |-> from_le_bytes(Slice(val, 13, 16)),
     ref_timestamp |-> from_le_bytes(Slice(val, 17, 24)),
     origin_timestamp |-> from_le_bytes(Slice(val, 25, 32)),
     recv_timestamp |-> from_le_bytes(Slice(val, 33, 40)),
     tx_timestamp |-> from_le_bytes(Slice(val, 41, 48))]

\* impl From<&NtpPacket> for RawPacket (ntppacket.rs)
RawPacket_from(val) ==
    <<val.li_vn_mode, val.stratum, as_u8(val.poll), as_u8(val.precision)>>
        \o to_be_bytes(val.root_delay)
        \o to_be_bytes(val.root_dispersion)
        \o to_be_bytes(val.ref_id)
        \o to_be_bytes(val.ref_timestamp)
        \o to_be_bytes(val.origin_timestamp)
        \o to_be_bytes(val.recv_timestamp)
        \o to_be_bytes(val.tx_timestamp)

\* NtpNum::ntohl, that is to_be(): a byte swap on a little-endian host and
\* nothing on a big-endian host
ntohl(val) == IF host = "little" THEN swap_bytes(val) ELSE val

\* convert_from_network: ntohl on every multi-byte field
convert_from_network(packet) ==
    [packet EXCEPT
        !.root_delay = ntohl(packet.root_delay),
        !.root_dispersion = ntohl(packet.root_dispersion),
        !.ref_id = ntohl(packet.ref_id),
        !.ref_timestamp = ntohl(packet.ref_timestamp),
        !.origin_timestamp = ntohl(packet.origin_timestamp),
        !.recv_timestamp = ntohl(packet.recv_timestamp),
        !.tx_timestamp = ntohl(packet.tx_timestamp)]

\* a field extraction that masks and does not shift
shifter_unshifted(val, mask, shift) == BitAnd(val, mask)

\* the closure `shifter` of process_response
shifter(val, mask, shift) == ShiftRight(BitAnd(val, mask), shift)

\* ------------------------------------------------------------------------
\* Response validation and time calculation
\* ------------------------------------------------------------------------

\* the packet process_response works on: decode, then byte-order correction
ReceivedPacket(resp) == convert_from_network(NtpPacket_from(resp))

\* a pipeline that looks at the stratum before anything else
ValidateStratumFirst(request, packet) ==
    LET mode == shifter(packet.li_vn_mode, MODE_MASK, MODE_SHIFT)
        li == shifter(packet.li_vn_mode, LI_MASK, LI_SHIFT)
        resp_version == shifter(packet.li_vn_mode, VERSION_MASK, VERSION_SHIFT)
        req_version == shifter(request.li_vn_mode, VERSION_MASK, VERSION_SHIFT)
    IN  IF packet.stratum = 0
            THEN InvalidStratum
        ELSE IF request.tx_timestamp # packet.origin_timestamp
            THEN OriginTimestampMismatch
        ELSE IF mode # SNTP_UNICAST /\ mode # SNTP_BROADCAST
            THEN InvalidMode
        ELSE IF li > LI_MAX_VALUE
            THEN InvalidLeapIndicator
        ELSE IF req_version # resp_version
            THEN VersionMismatch
        ELSE Passed

\* the validation pipeline of process_response: the error of the first
\* failing check, or Passed when every check passes
Validate(request, packet) ==
    LET mode == shifter(packet.li_vn_mode, MODE_MASK, MODE_SHIFT)
        li == shifter(packet.li_vn_mode, LI_MASK, LI_SHIFT)
        resp_version == shifter(packet.li_vn_mode, VERSION_MASK, VERSION_SHIFT)
        req_version == shifter(request.li_vn_mode, VERSION_MASK, VERSION_SHIFT)
    IN  IF request.tx_timestamp # packet.origin_timestamp
            THEN OriginTimestampMismatch
        ELSE IF mode # SNTP_UNICAST /\ mode # SNTP_BROADCAST
            THEN InvalidMode
        ELSE IF li > LI_MAX_VALUE
            THEN InvalidLeapIndicator
        ELSE IF req_version # resp_version
            THEN VersionMismatch
        ELSE IF packet.stratum = 0
            THEN InvalidStratum
        ELSE Passed

\* delta of process_response: the wrapped value and whether a step overflowed
Delta(packet, t4) ==
    LET a == WrappingSub(t4, packet.origin_timestamp)
        b == WrappingSub(packet.tx_timestamp, packet.recv_timestamp)
    IN  [val |-> WrappingSub(a, b),
         overflow |-> \/ USubOverflows(t4, packet.origin_timestamp)
                      \/ USubOverflows(packet.tx_timestamp,
                                       packet.recv_timestamp)
                      \/ ISubOverflows(a, b)]

\* theta of process_response: the wrapped value and whether a step overflowed
Theta(packet, t4) ==
    LET a == WrappingSub(packet.recv_timestamp, packet.origin_timestamp)
        b == WrappingSub(t4, packet.tx_timestamp)
    IN  [val |-> IDiv2(WrappingAdd(a, b)),
         overflow |-> \/ ISubOverflows(packet.recv_timestamp,
                                       packet.origin_timestamp)
                      \/ ISubOverflows(t4, packet.tx_timestamp)
                      \/ IAddOverflows(a, b)]

\* the time calculation of process_response on a validated packet
Calculate(packet, t4) ==
    LET delta == Delta(packet, t4)
        theta == Theta(packet, t4)
        seconds == High32(packet.tx_timestamp)
        nsec == Low32(packet.tx_timestamp)
        tx_tm == WrappingSub(seconds, NTP_TIMESTAMP_DELTA)
    IN  IF build = "debug" /\
           (\/ delta.overflow
            \/ theta.overflow
            \/ USubOverflows(seconds, NTP_TIMESTAMP_DELTA)
            \/ AbsOverflows(delta.val))
        THEN OverflowPanic
        ELSE NtpResult_new(tx_tm, nsec, WrappingAbs(delta.val), theta.val)

\* process_response
process_response(request, resp, t4) ==
    LET packet == ReceivedPacket(resp)
        failed == Validate(request, packet)
    IN  IF failed # Passed THEN Err(failed) ELSE Calculate(packet, t4)

\* ------------------------------------------------------------------------
\* Environment: the inputs the exchange can meet
\* ------------------------------------------------------------------------

MaxAddrs == 2

\* the i-th address the resolver knows, no address, and an address that is
\* no candidate of any resolution
Addr(i) == <<"addr", i>>
NoAddr == <<"none">>
Stranger == <<"stranger">>
NoPacket == [none |-> TRUE]

\* what the resolver can return: n candidate addresses, in resolver order
CandidateLists == {[i \in 1..n |-> Addr(i)] : n \in 0..MaxAddrs}

\* what send_to can return: an error, or the number of bytes written
SendResults ==
    {Err(TransportError), Ok(SizeOfNtpPacket), Ok(SizeOfNtpPacket - 1)}

\* clock readings: seconds (a u64) and microseconds since the Unix epoch.
\* 1_700_000_000 s = 25939 * 65536 + 61696
ClockReadings ==
    {[secs |-> <<0, 0, 25939, 61696>>, micros |-> 10],
     [secs |-> <<0, 0, 25939, 61696>>, micros |-> 18],
     [secs |-> <<0, 0, 25939, 61697>>, micros |-> 3]}

\* header bytes a response can carry:
\*   36 = li 0, version 4, mode 4     229 = li 3, version 4, mode 5
\*   35 = li 0, version 4, mode 3      28 = li 0, version 3, mode 4
\*   27 = li 0, version 3, mode 3
Headers == {36, 229, 35, 28, 27}

\* a response packet as the server meant it
ResponsePacket(h, st, origin, t2, t3) ==
    [li_vn_mode |-> h,
     stratum |-> st,
     poll |-> 6,
     precision |-> -20,
     root_delay |-> U32(258),
     root_dispersion |-> U32(772),
     ref_id |-> <<18256, 21248>>,
     ref_timestamp |-> origin,
     origin_timestamp |-> origin,
     recv_timestamp |-> t2,
     tx_timestamp |-> t3]

\* the origin timestamps a response to a request stamped t1 can carry: t1
\* itself, and t1 with its bytes reversed
Origins(t1) == {t1, swap_bytes(t1)}

\* server timestamps (T2, T3) a response to a request stamped t1 can carry
ServerTimes(t1) ==
    LET plus(k) == WrappingAdd(t1, U64(k))
    IN  { <<plus(2), plus(4)>>,                        \* T1 < T2 < T3
          <<plus(5), plus(4)>>,                        \* T3 < T2
          <<plus(20), plus(23)>>,                      \* server ahead
          <<I64_MAX, plus(4)>>,                        \* T2 - T1 overflows
          <<plus(2), <<0, 1, Limb - 1, Limb - 1>>>>,   \* T3 before 1970
          <<plus(2), <<59705, 1, 15258, 51712>>>> }    \* fraction = 1e9

\* the response packets a request stamped t1 can be answered with
Responses(t1) ==
    { ResponsePacket(h, st, o, plus2[1], plus2[2]) :
        h \in Headers, st \in {0, 1}, o \in Origins(t1),
        plus2 \in {<<WrappingAdd(t1, U64(2)), WrappingAdd(t1, U64(4))>>} }
    \cup
    { ResponsePacket(36, 1, o, tt[1], tt[2]) :
        o \in Origins(t1), tt \in ServerTimes(t1) }

\* the payloads on the wire: the encoded packet, the packet cut by one byte,
\* and the packet followed by one more byte
Payloads(t1) ==
    UNION { { RawNtpPacket_from(p),
              Slice(RawNtpPacket_from(p), 1, NTP_PACKET_SIZE - 1),
              RawNtpPacket_from(p) \o <<170>> } : p \in Responses(t1) }

\* where a datagram can come from, given the candidates d
Sources(d) == {Stranger} \cup {d[i] : i \in DOMAIN d}

\* ------------------------------------------------------------------------
\* request
\* ------------------------------------------------------------------------

Builds == {"debug", "release"}
Hosts == {"little", "big"}
Platforms == {"unix", "windows"}

NoDatagram == [src |-> NoAddr, bytes |-> <<>>]
NoArg == [none |-> TRUE]

Idle ==
    /\ req = NoPacket
    /\ dest = <<>>
    /\ next_addr = 1
    /\ sent = <<>>
    /\ expected = NoAddr
    /\ datagram = NoDatagram
    /\ buf = [i \in 1..SizeOfNtpPacket |-> 0]
    /\ response = 0
    /\ src = NoAddr
    /\ recv_timestamp = Zero64
    /\ decoded = NoPacket
    /\ outcome = Running
    /\ receives = 0
    /\ arg = NoArg

Init ==
    /\ build \in Builds
    /\ host \in Hosts
    /\ platform \in Platforms
    /\ pc = "bind"
    /\ Idle

\* the call ends with result r
Return(r) ==
    /\ outcome' = r
    /\ pc' = "done"

\* lib.rs 153-154: UdpSocket::bind(..).expect(..)
Bind ==
    /\ pc = "bind"
    /\ \E ok \in BOOLEAN :
        IF ok
        THEN pc' = "resolve" /\ UNCHANGED outcome
        ELSE Return(Panic("Unable to create a UDP socket"))
    /\ UNCHANGED <<receives, build, host, platform, req, dest, next_addr, sent,
                   expected, datagram, buf, response, src, recv_timestamp,
                   decoded, arg>>

\* lib.rs 155: to_socket_addrs()?
Resolve ==
    /\ pc = "resolve"
    /\ \/ /\ Return(Err(ResolutionError))
          /\ UNCHANGED dest
       \/ /\ \E d \in CandidateLists : dest' = d
          /\ pc' = "set_read_timeout"
          /\ UNCHANGED outcome
    /\ UNCHANGED <<receives, build, host, platform, req, next_addr, sent, expected,
                   datagram, buf, response, src, recv_timestamp, decoded,
                   arg>>

\* lib.rs 157-159: set_read_timeout(..).expect(..)
SetReadTimeout ==
    /\ pc = "set_read_timeout"
    /\ \E ok \in BOOLEAN :
        IF ok
        THEN pc' = "new_request" /\ UNCHANGED outcome
        ELSE Return(Panic("Unable to set up socket timeout"))
    /\ UNCHANGED <<receives, build, host, platform, req, dest, next_addr, sent,
                   expected, datagram, buf, response, src, recv_timestamp,
                   decoded, arg>>

\* lib.rs 160: NtpPacket::new()
NewRequest ==
    /\ pc = "new_request"
    /\ \E c \in ClockReadings :
        req' = NtpPacket_new(get_ntp_timestamp(c.secs, c.micros))
    /\ pc' = "process_request"
    /\ UNCHANGED <<receives, build, host, platform, dest, next_addr, sent, expected,
                   datagram, buf, response, src, recv_timestamp, decoded,
                   outcome, arg>>

\* a send that stamps the packet again for every address it is sent to
send_request_restamped(request, addr, r) ==
    [addr |-> addr,
     bytes |-> RawNtpPacket_from(
         [request EXCEPT !.tx_timestamp = WrappingAdd(@, U64(addr[2]))]),
     result |-> r]

\* send_request: what goes to send_to, with the result r it returns
send_request(request, addr, r) ==
    [addr |-> addr, bytes |-> RawNtpPacket_from(request), result |-> r]

\* a fallback loop that walks the candidates from the last to the first
CandidateFromTheEnd(d, i) == d[Len(d) - i + 1]

\* the i-th address `for addr in dest` yields
Candidate(d, i) == d[i]

\* process_request, one iteration of `for addr in dest` (lib.rs 197-207)
SendAttempt ==
    /\ pc = "process_request"
    /\ next_addr <= Len(dest)
    /\ \E r \in SendResults :
        /\ sent' = Append(sent, send_request(req, Candidate(dest, next_addr), r))
        /\ IF r.kind = "Err"
           THEN /\ next_addr' = next_addr + 1
                /\ UNCHANGED <<pc, expected, outcome>>
           ELSE IF r.val = SizeOfNtpPacket
           THEN /\ expected' = Candidate(dest, next_addr)
                /\ pc' = "recv"
                /\ UNCHANGED <<next_addr, outcome>>
           ELSE /\ Return(Panic("assertion failed: write_bytes == size"))
                /\ UNCHANGED <<next_addr, expected>>
    /\ UNCHANGED <<receives, build, host, platform, req, dest, datagram, buf,
                   response, src, recv_timestamp, decoded, arg>>

\* process_request, after the loop (lib.rs 209-212)
NoServer ==
    /\ pc = "process_request"
    /\ next_addr > Len(dest)
    /\ Return(Err(NoServerAvailable))
    /\ UNCHANGED <<receives, build, host, platform, req, dest, next_addr, sent,
                   expected, datagram, buf, response, src, recv_timestamp,
                   decoded, arg>>

\* recv_from into a buffer of SizeOfNtpPacket bytes, for a datagram of
\* payload b: the bytes left in the buffer and the count returned.  A
\* datagram longer than the buffer is cut to the buffer on unix and is an
\* error on windows.
recv_from(b) ==
    IF Len(b) <= SizeOfNtpPacket
    THEN Ok([buf |-> [i \in 1..SizeOfNtpPacket |->
                        IF i <= Len(b) THEN b[i] ELSE 0],
             count |-> Len(b)])
    ELSE IF platform = "unix"
    THEN Ok([buf |-> Slice(b, 1, SizeOfNtpPacket), count |-> SizeOfNtpPacket])
    ELSE Err(TransportError)

\* lib.rs 162-164: recv_from(..)? and the local receive time
Recv ==
    /\ pc = "recv"
    /\ \/ /\ Return(Err(TransportError))
          /\ UNCHANGED <<datagram, buf, response, src, recv_timestamp>>
       \/ \E b \in Payloads(req.tx_timestamp), a \in Sources(dest),
             c \in ClockReadings :
            /\ datagram' = [src |-> a, bytes |-> b]
            /\ IF recv_from(b).kind = "Ok"
               THEN /\ buf' = recv_from(b).val.buf
                    /\ response' = recv_from(b).val.count
                    /\ src' = a
                    /\ recv_timestamp' = get_ntp_timestamp(c.secs, c.micros)
                    /\ pc' = "check_source"
                    /\ UNCHANGED outcome
               ELSE /\ Return(recv_from(b))
                    /\ UNCHANGED <<buf, response, src, recv_timestamp>>
    /\ receives' = receives + 1
    /\ UNCHANGED <<build, host, platform, req, dest, next_addr, sent,
                   expected, decoded, arg>>

\* lib.rs 167-172
CheckSource ==
    /\ pc = "check_source"
    /\ IF src # expected
       THEN Return(Err(SourceMismatch))
       ELSE pc' = "check_length" /\ UNCHANGED outcome
    /\ UNCHANGED <<receives, build, host, platform, req, dest, next_addr, sent,
                   expected, datagram, buf, response, src, recv_timestamp,
                   decoded, arg>>

\* lib.rs 174-189
CheckLength ==
    /\ pc = "check_length"
    /\ IF response = SizeOfNtpPacket
       THEN /\ decoded' = ReceivedPacket(buf)
            /\ Return(process_response(req, buf, recv_timestamp))
       ELSE /\ Return(Err(MalformedResponse))
            /\ UNCHANGED decoded
    /\ UNCHANGED <<receives, build, host, platform, req, dest, next_addr, sent,
                   expected, datagram, buf, response, src, recv_timestamp,
                   arg>>

Next ==
    \/ Bind
    \/ Resolve
    \/ SetReadTimeout
    \/ NewRequest
    \/ SendAttempt
    \/ NoServer
    \/ Recv
    \/ CheckSource
    \/ CheckLength

Spec == Init /\ [][Next]_vars


\* ------------------------------------------------------------------------
\* Properties of request
\* ------------------------------------------------------------------------

\* the three sub-fields of a header byte, by their place value
HeaderMode(h) == h % 8
HeaderVersion(h) == (h \div 8) % 8
HeaderLeap(h) == h \div 64

\* the five validation checks, in the order of the specification: whether
\* packet passes each of them as an answer to request
Checks(request, packet) ==
    << packet.origin_timestamp = request.tx_timestamp,
       HeaderMode(packet.li_vn_mode) \in {4, 5},
       HeaderLeap(packet.li_vn_mode) <= 3,
       HeaderVersion(packet.li_vn_mode) = HeaderVersion(request.li_vn_mode),
       packet.stratum # 0 >>

CheckErrors ==
    << OriginTimestampMismatch, InvalidMode, InvalidLeapIndicator,
       VersionMismatch, InvalidStratum >>

FailedChecks(request, packet) ==
    {i \in 1..5 : ~Checks(request, packet)[i]}

PassesAllChecks(request, packet) == FailedChecks(request, packet) = {}

\* the smallest element of a non-empty set of numbers
Least(S) == CHOOSE x \in S : \A y \in S : x <= y

\* a datagram was delivered to recv_from
Delivered == datagram # NoDatagram

\* process_response ran on a packet that passes every check
Validated == decoded # NoPacket /\ PassesAllChecks(req, decoded)

\* C1: request returns a success Result only when the received datagram came
\* from the address the request was sent to, was exactly 48 bytes long and
\* passed all five validation checks; a delivered datagram that misses one
\* of these ends the call with an error and no result value.
C1_SuccessOnlyForValidExchange ==
    LET good == /\ Delivered
                /\ datagram.src = expected
                /\ Len(datagram.bytes) = 48
                /\ PassesAllChecks(req, ReceivedPacket(datagram.bytes))
    IN  /\ outcome.kind = "Ok" => good
        /\ (pc = "done" /\ Delivered /\ ~good) =>
              (outcome.kind = "Err" /\ outcome.val = NoValue)

\* C2: a datagram whose source address differs from the address the request
\* was sent to always yields SourceMismatch, whatever its payload and
\* length, and is never decoded.
C2_WrongSourceIsSourceMismatch ==
    (pc = "done" /\ Delivered /\ datagram.src # expected) =>
        (outcome = Err(SourceMismatch) /\ decoded = NoPacket)

\* C3: a datagram from the expected source whose length is not exactly 48
\* bytes yields MalformedResponse and is never decoded.
C3_WrongLengthIsMalformedResponse ==
    (pc = "done" /\ Delivered /\ datagram.src = expected
        /\ Len(datagram.bytes) # 48) =>
        (outcome = Err(MalformedResponse) /\ decoded = NoPacket)

\* C4: process_response reports the error of the earliest failing check, in
\* the order origin timestamp, mode, leap indicator, version, stratum, and
\* reports a validation error only when a check fails.
C4_FirstFailingCheckWins ==
    decoded # NoPacket =>
        LET failed == FailedChecks(req, decoded)
        IN  IF failed # {}
            THEN outcome = Err(CheckErrors[Least(failed)])
            ELSE outcome.kind # "Err"

\* C4 happens: a response failing both the origin-timestamp check and the
\* stratum check was processed and reported the origin timestamp
C4_Witness ==
    /\ decoded # NoPacket
    /\ {1, 5} \subseteq FailedChecks(req, decoded)
    /\ outcome = Err(OriginTimestampMismatch)

\* every send so far failed
AllSendsFailed == \A i \in 1..Len(sent) : sent[i].result.kind = "Err"

\* C5: process_request tries the candidates in resolver order and stops at
\* the first send that succeeds; the address it returns is the first one
\* whose send succeeded; NoServerAvailable is returned if and only if the
\* send failed for every candidate.
C5_FirstSuccessfulSendWins ==
    /\ Len(sent) <= Len(dest)
    /\ \A i \in 1..Len(sent) : sent[i].addr = dest[i]
    /\ \A i \in 1..(Len(sent) - 1) : sent[i].result.kind = "Err"
    /\ expected # NoAddr =>
          /\ sent # <<>>
          /\ sent[Len(sent)].result.kind = "Ok"
          /\ expected = dest[Len(sent)]
    /\ outcome = Err(NoServerAvailable) =>
          (Len(sent) = Len(dest) /\ AllSendsFailed)
    /\ (req # NoPacket /\ pc # "process_request"
            /\ Len(sent) = Len(dest) /\ AllSendsFailed) =>
          outcome = Err(NoServerAvailable)

\* C5 happens: the first candidate's send failed and the second one's
\* succeeded, so the second is the expected source
C5_Witness ==
    /\ Len(sent) = 2
    /\ sent[1].result.kind = "Err"
    /\ expected = dest[2]
    /\ pc = "recv"

\* C6: every failure of an exchange surfaces as a returned error value; no
\* failure aborts the call.
C6_EveryFailureIsReturned ==
    pc = "done" => outcome.kind \in {"Ok", "Err"}

\* the other steps of the time calculation stay in range: the signed steps
\* of the delay, the offset, the epoch subtraction and the carry
DelaySignedStepsFit(packet, t4) ==
    LET a == WrappingSub(t4, packet.origin_timestamp)
        b == WrappingSub(packet.tx_timestamp, packet.recv_timestamp)
    IN  ~ISubOverflows(a, b) /\ WrappingSub(a, b) # I64_MIN

ResultStepsFit(packet) ==
    /\ ~ULt(High32(packet.tx_timestamp), NTP_TIMESTAMP_DELTA)
    /\ ~UAddOverflows(WrappingSub(High32(packet.tx_timestamp),
                                  NTP_TIMESTAMP_DELTA),
                      U32(UDivMod(Low32(packet.tx_timestamp),
                                  NSEC_IN_SEC).quot))

\* C7: for every validated response and every T4 the roundtrip of the Result
\* is |(T4 - T1) - (T3 - T2)| in signed 64-bit arithmetic, also when
\* T4 < T1 or T3 < T2.
C7_RoundtripIsAbsoluteDelay ==
    (/\ pc = "done"
     /\ Validated
     /\ DelaySignedStepsFit(decoded, recv_timestamp)
     /\ ~Theta(decoded, recv_timestamp).overflow
     /\ ResultStepsFit(decoded)) =>
        /\ outcome.kind = "Ok"
        /\ outcome.val.roundtrip =
              WrappingAbs(WrappingSub(
                  WrappingSub(recv_timestamp, req.tx_timestamp),
                  WrappingSub(decoded.tx_timestamp, decoded.recv_timestamp)))
        /\ ~IsNeg(outcome.val.roundtrip)

\* the sum (T2 - T1) + (T3 - T4) of the offset formula
OffsetSum(packet, t1, t4) ==
    WrappingAdd(WrappingSub(packet.recv_timestamp, t1),
                WrappingSub(packet.tx_timestamp, t4))

\* C8: for every validated response and every T4 the offset of the Result is
\* ((T2 - T1) + (T3 - T4)) / 2 in signed 64-bit arithmetic, truncating
\* toward zero, and is negative exactly when the sum is <= -2.
C8_OffsetIsHalfTheSum ==
    (Validated /\ outcome.kind = "Ok") =>
        LET sum == OffsetSum(decoded, req.tx_timestamp, recv_timestamp)
        IN  /\ outcome.val.offset = IDiv2(sum)
            /\ IsNeg(outcome.val.offset) <=>
                  (IsNeg(sum) /\ sum # WrappingNeg(U64(1)))

\* ------------------------------------------------------------------------
\* NtpResult::new called directly
\* ------------------------------------------------------------------------

SecondsInputs ==
    {Zero32, U32(1), U32(1700000000), <<Limb - 1, Limb - 5>>,
     <<Limb - 1, Limb - 4>>, U32_MAX}

SubsecondInputs ==
    {Zero32, U32(2), U32(999999999), U32(1000000000), U32(1000000001),
     U32_MAX}

RoundtripInputs == {Zero64, U64(3), U64_MAX}

OffsetInputs == {Zero64, U64(4), I64_MAX, WrappingNeg(U64(1))}

InitResult ==
    /\ build \in Builds
    /\ host \in Hosts
    /\ platform \in Platforms
    /\ pc = "call_new"
    /\ Idle

\* a caller constructs a result
CallNew ==
    /\ pc = "call_new"
    /\ \E sec \in SecondsInputs, nsec \in SubsecondInputs,
          roundtrip \in RoundtripInputs, offset \in OffsetInputs :
        /\ arg' = [sec |-> sec, nsec |-> nsec, roundtrip |-> roundtrip,
                   offset |-> offset]
        /\ outcome' = NtpResult_new(sec, nsec, roundtrip, offset)
    /\ pc' = "new_returned"
    /\ UNCHANGED <<receives, build, host, platform, req, dest, next_addr, sent,
                   expected, datagram, buf, response, src, recv_timestamp,
                   decoded>>

NextResult == CallNew

SpecResult == InitResult /\ [][NextResult]_vars

\* C9: for every u32 pair (seconds, subsecond), NtpResult::new constructs a
\* Result with nsec = subsecond mod 1_000_000_000 (so nsec < 1_000_000_000)
\* and sec = seconds + subsecond div 1_000_000_000, roundtrip and offset
\* stored unchanged.
C9_NewNormalisesEveryPair ==
    pc = "new_returned" =>
        LET d == UDivMod(arg.nsec, NSEC_IN_SEC)
        IN  /\ outcome.kind = "Ok"
            /\ outcome.val.nsec = d.rem
            /\ ULt(outcome.val.nsec, NSEC_IN_SEC)
            /\ ~UAddOverflows(arg.sec, U32(d.quot))
            /\ outcome.val.sec = WrappingAdd(arg.sec, U32(d.quot))
            /\ outcome.val.roundtrip = arg.roundtrip
            /\ outcome.val.offset = arg.offset

\* ------------------------------------------------------------------------
\* The wire codec on its own
\* ------------------------------------------------------------------------

WellFormedPackets ==
    { [li_vn_mode |-> h,
       stratum |-> st,
       poll |-> pl,
       precision |-> -20,
       root_delay |-> rd,
       root_dispersion |-> U32(772),
       ref_id |-> <<18256, 21248>>,
       ref_timestamp |-> <<59646, 28544, 1, 2>>,
       origin_timestamp |-> o,
       recv_timestamp |-> <<59646, 28545, 0, 0>>,
       tx_timestamp |-> t] :
        h \in {35, 36, 255}, st \in {0, 255}, pl \in {-128, 6},
        rd \in {U32(258), U32_MAX},
        o \in {Zero64, <<59646, 28544, 0, 18>>},
        t \in {<<59646, 28544, 0, 18>>, <<4660, 22136, 39612, 57072>>,
               U64_MAX} }

Codecs == {"lib.rs", "ntppacket.rs"}

InitCodec ==
    /\ build \in Builds
    /\ host \in Hosts
    /\ platform \in Platforms
    /\ pc = "encode"
    /\ Idle

\* a packet is encoded: From<&NtpPacket> for RawNtpPacket / RawPacket
Encode ==
    /\ pc = "encode"
    /\ \E p \in WellFormedPackets, c \in Codecs :
        /\ arg' = [packet |-> p, codec |-> c]
        /\ buf' = IF c = "lib.rs" THEN RawNtpPacket_from(p)
                                  ELSE RawPacket_from(p)
    /\ pc' = "decode"
    /\ UNCHANGED <<receives, build, host, platform, req, dest, next_addr, sent,
                   expected, datagram, response, src, recv_timestamp,
                   decoded, outcome>>

\* the bytes are decoded: From<RawNtpPacket> / From<RawPacket> for NtpPacket
Decode ==
    /\ pc = "decode"
    /\ decoded' = IF arg.codec = "lib.rs" THEN NtpPacket_from(buf)
                                          ELSE NtpPacket_from_RawPacket(buf)
    /\ pc' = "decoded"
    /\ UNCHANGED <<receives, build, host, platform, req, dest, next_addr, sent,
                   expected, datagram, buf, response, src, recv_timestamp,
                   outcome, arg>>

\* the byte-order correction is applied to the decoded packet
ConvertFromNetwork ==
    /\ pc = "decoded"
    /\ decoded' = convert_from_network(decoded)
    /\ pc' = "converted"
    /\ UNCHANGED <<receives, build, host, platform, req, dest, next_addr, sent,
                   expected, datagram, buf, response, src, recv_timestamp,
                   outcome, arg>>

NextCodec ==
    \/ Encode
    \/ Decode
    \/ ConvertFromNetwork

SpecCodec == InitCodec /\ [][NextCodec]_vars

\* a value with its bytes in reverse order, through its bytes
Reversed(v) ==
    LET b == to_be_bytes(v)
    IN  from_be_bytes([k \in 1..Len(b) |-> b[Len(b) - k + 1]])

\* packet with every multi-byte field byte-reversed
ByteReversed(packet) ==
    [packet EXCEPT
        !.root_delay = Reversed(@),
        !.root_dispersion = Reversed(@),
        !.ref_id = Reversed(@),
        !.ref_timestamp = Reversed(@),
        !.origin_timestamp = Reversed(@),
        !.recv_timestamp = Reversed(@),
        !.tx_timestamp = Reversed(@)]

SuccessfulSends ==
    {i \in 1..Len(sent) :
        sent[i].result.kind = "Ok" /\ sent[i].result.val = SizeOfNtpPacket}

\* one call sends successfully at most once, receives at most once, and is
\* over as soon as it has an outcome
NoRetry ==
    /\ Cardinality(SuccessfulSends) <= 1
    /\ receives <= 1
    /\ outcome # Running => pc = "done"
    /\ receives = 1 => Cardinality(SuccessfulSends) = 1

\* how far the call has come
Stage ==
    CASE pc = "bind" -> 0
      [] pc = "resolve" -> 1
      [] pc = "set_read_timeout" -> 2
      [] pc = "new_request" -> 3
      [] pc = "process_request" -> 4
      [] pc = "recv" -> 5
      [] pc = "check_source" -> 6
      [] pc = "check_length" -> 7
      [] OTHER -> 8

\* a bound on the steps the call can still take
StepsLeft ==
    (8 - Stage) * (MaxAddrs + 1) + (Len(dest) + 1 - next_addr)

\* every step of request brings the call nearer to its end
StepsDecrease == [][StepsLeft' < StepsLeft]_vars

\* a call that has not ended can take a step: every step but the two of
\* process_request is guarded by pc alone, and of those two one is enabled
\* (the loop index is on a candidate or just past the last one)
NeverStuck ==
    /\ pc \in {"bind", "resolve", "set_read_timeout", "new_request",
               "process_request", "recv", "check_source", "check_length",
               "done"}
    /\ next_addr \in 1..(Len(dest) + 1)

\* C11: one call of request never retries: at most one successful send and
\* at most one receive, every failure ends the call at once, and every call
\* ends with either a Result or an error.
C11_NoRetryAndResultOrError ==
    /\ NoRetry
    /\ StepsLeft >= 0
    /\ NeverStuck
    /\ pc = "done" => outcome.kind \in {"Ok", "Err"}

\* ------------------------------------------------------------------------
\* The time of the Result
\* ------------------------------------------------------------------------

\* the delay and the offset of the packet are computed without overflow
DelayAndOffsetFit(packet, t4) ==
    /\ ~Delta(packet, t4).overflow
    /\ ~AbsOverflows(Delta(packet, t4).val)
    /\ ~Theta(packet, t4).overflow

\* sec = hi - NTP_TIMESTAMP_DELTA + quot over the integers, written without
\* a subtraction as sec + NTP_TIMESTAMP_DELTA = hi + quot in 64 bits, where
\* no sum of two 32-bit values wraps
IsUnixSeconds(sec, hi, quot) ==
    WrappingAdd(Widen(sec), Widen(NTP_TIMESTAMP_DELTA)) =
        WrappingAdd(Widen(hi), U64(quot))

\* C12: for every validated response with transmit timestamp T3 the Result
\* has sec = (T3 >> 32) - 2208988800 + ((T3 & 0xFFFFFFFF) div 1_000_000_000)
\* and nsec = (T3 & 0xFFFFFFFF) mod 1_000_000_000, also when the high 32
\* bits of T3 are below 2208988800 (here for the responses whose delay and
\* offset are computed without overflow).
C12_ResultTimeIsSplitT3 ==
    (/\ pc = "done"
     /\ Validated
     /\ DelayAndOffsetFit(decoded, recv_timestamp)) =>
        LET t3 == decoded.tx_timestamp
            d == UDivMod(Low32(t3), NSEC_IN_SEC)
        IN  /\ outcome.kind = "Ok"
            /\ IsUnixSeconds(outcome.val.sec, High32(t3), d.quot)
            /\ outcome.val.nsec = d.rem

\* C12 for the transmit timestamps at or after the Unix epoch
C12_HoldsFrom1970 ==
    (/\ pc = "done"
     /\ Validated
     /\ DelayAndOffsetFit(decoded, recv_timestamp)
     /\ ~ULt(High32(decoded.tx_timestamp), NTP_TIMESTAMP_DELTA)) =>
        LET t3 == decoded.tx_timestamp
            d == UDivMod(Low32(t3), NSEC_IN_SEC)
        IN  /\ outcome.kind = "Ok"
            /\ IsUnixSeconds(outcome.val.sec, High32(t3), d.quot)
            /\ outcome.val.nsec = d.rem

\* ------------------------------------------------------------------------
\* Byte order of the received packet
\* ------------------------------------------------------------------------

\* the multi-byte fields of packet are the big-endian values of the bytes
\* of b they are laid out on
FieldsAreBigEndian(packet, b) ==
    /\ packet.root_delay = from_be_bytes(Slice(b, 5, 8))
    /\ packet.root_dispersion = from_be_bytes(Slice(b, 9, 12))
    /\ packet.ref_id = from_be_bytes(Slice(b, 13, 16))
    /\ packet.ref_timestamp = from_be_bytes(Slice(b, 17, 24))
    /\ packet.origin_timestamp = from_be_bytes(Slice(b, 25, 32))
    /\ packet.recv_timestamp = from_be_bytes(Slice(b, 33, 40))
    /\ packet.tx_timestamp = from_be_bytes(Slice(b, 41, 48))

\* C13: the packet that validation and the delay/offset computation read
\* has every multi-byte field equal to the big-endian interpretation of its
\* bytes on the wire, whatever the host byte order.
C13_FieldsReadAreBigEndian ==
    decoded # NoPacket => FieldsAreBigEndian(decoded, datagram.bytes)

\* C13 on a little-endian host
C13_HoldsOnLittleEndian ==
    (decoded # NoPacket /\ host = "little") =>
        FieldsAreBigEndian(decoded, datagram.bytes)

\* ------------------------------------------------------------------------
\* The request on the wire
\* ------------------------------------------------------------------------

\* bytes first + 1 .. first + 8 of b (counted from 1) hold the u64 v, most
\* significant byte first
HoldsBigEndian(b, first, v) ==
    \A k \in 1..4 :
        /\ b[first + 2 * k - 1] = v[k] \div Byte
        /\ b[first + 2 * k] = v[k] % Byte

\* C14: every datagram request sends is exactly 48 bytes, byte 0 is 0x23
\* (mode 3, version 4, leap indicator 0), bytes 1 to 39 are zero and bytes
\* 40 to 47 hold the request's transmit timestamp in big-endian order.
C14_RequestOnTheWire ==
    \A i \in 1..Len(sent) :
        LET b == sent[i].bytes
        IN  /\ Len(b) = 48
            /\ b[1] = 35
            /\ HeaderMode(b[1]) = 3
            /\ HeaderVersion(b[1]) = 4
            /\ HeaderLeap(b[1]) = 0
            /\ \A k \in 2..40 : b[k] = 0
            /\ HoldsBigEndian(b, 40, req.tx_timestamp)

\* C14 happens: a datagram was sent whose timestamp is not the same read
\* from either end
C14_Witness ==
    /\ pc = "recv"
    /\ sent # <<>>
    /\ req.tx_timestamp # swap_bytes(req.tx_timestamp)

\* ------------------------------------------------------------------------
\* One request packet for the whole exchange
\* ------------------------------------------------------------------------

\* the transmit timestamp carried by the i-th send
SentStamp(i) == from_be_bytes(Slice(sent[i].bytes, 41, 48))

\* C15: one call of request builds one request packet: every send attempt
\* carries the same transmit timestamp, and that timestamp is the T1 the
\* response's origin_timestamp is checked against and the delay and offset
\* are computed from, however many addresses were tried.
C15_OneRequestPacket ==
    /\ \A i, j \in 1..Len(sent) : sent[i].bytes = sent[j].bytes
    /\ \A i \in 1..Len(sent) : SentStamp(i) = req.tx_timestamp
    /\ (decoded # NoPacket /\ sent # <<>>) =>
          LET t1 == SentStamp(1)
              exchange == [decoded EXCEPT !.origin_timestamp = t1]
          IN  /\ (decoded.origin_timestamp # t1) =>
                    outcome = Err(OriginTimestampMismatch)
              /\ outcome.kind = "Ok" =>
                    /\ decoded.origin_timestamp = t1
                    /\ outcome.val.roundtrip =
                          WrappingAbs(Delta(exchange, recv_timestamp).val)
                    /\ outcome.val.offset =
                          Theta(exchange, recv_timestamp).val

\* C15 happens: the send to the first address failed, the second address
\* answered and the exchange gave a Result
C15_Witness ==
    /\ Len(sent) = 2
    /\ sent[1].result.kind = "Err"
    /\ outcome.kind = "Ok"
    /\ decoded # NoPacket

\* ------------------------------------------------------------------------
\* process_response called directly
\* ------------------------------------------------------------------------

\* every value of the header byte li_vn_mode
HeaderBytes == 0..(Byte - 1)

\* the response buffers process_response is called with, for a request
\* stamped t1: every header byte with either stratum and origin, and the
\* header of a server's answer with every pair of server times
ResponseInputs(t1) ==
    { ResponsePacket(h, st, o, WrappingAdd(t1, U64(2)),
                     WrappingAdd(t1, U64(4))) :
        h \in HeaderBytes, st \in {0, 1}, o \in Origins(t1) }
    \cup
    { ResponsePacket(36, 1, o, tt[1], tt[2]) :
        o \in Origins(t1), tt \in ServerTimes(t1) }

InitResponse ==
    /\ build \in Builds
    /\ host \in Hosts
    /\ platform \in Platforms
    /\ pc = "call_process_response"
    /\ Idle

\* process_response(resp, req, recv_timestamp) and its return
CallProcessResponse ==
    /\ pc = "call_process_response"
    /\ \E c1 \in ClockReadings, c4 \in ClockReadings :
        LET t1 == get_ntp_timestamp(c1.secs, c1.micros)
            t4 == get_ntp_timestamp(c4.secs, c4.micros)
        IN  \E p \in ResponseInputs(t1) :
                /\ req' = NtpPacket_new(t1)
                /\ buf' = RawNtpPacket_from(p)
                /\ recv_timestamp' = t4
                /\ decoded' = ReceivedPacket(RawNtpPacket_from(p))
                /\ outcome' = process_response(NtpPacket_new(t1),
                                               RawNtpPacket_from(p), t4)
    /\ pc' = "returned"
    /\ UNCHANGED <<receives, build, host, platform, dest, next_addr, sent,
                   expected, datagram, response, src, arg>>

NextResponse == CallProcessResponse

SpecResponse == InitResponse /\ [][NextResponse]_vars

\* C16: the leap-indicator check never fails: for every header byte of a
\* response the extracted leap indicator is <= 3, and no response produces
\* the InvalidLeapIndicator error.
C16_LeapIndicatorNeverFails ==
    pc = "returned" =>
        /\ shifter(decoded.li_vn_mode, LI_MASK, LI_SHIFT) <= LI_MAX_VALUE
        /\ outcome # Err(InvalidLeapIndicator)

\* C16 happens: a response with both leap-indicator bits set (header 228 =
\* li 3, version 4, mode 4) went through the leap-indicator check and on to
\* a Result
C16_Witness ==
    /\ pc = "returned"
    /\ buf[1] = 228
    /\ outcome.kind = "Ok"

\* C17: process_response is total: for every response buffer, request and
\* receive timestamp it returns a Result or a validation error, and no
\* arithmetic step on the way overflows or underflows: the unsigned
\* subtractions T4 - T1 and T3 - T2, the signed sums, the absolute value of
\* the delay, the subtraction of the epoch offset and the carry addition.
C17_ProcessResponseIsTotal ==
    pc = "returned" =>
        /\ outcome.kind \in {"Ok", "Err"}
        /\ outcome.kind = "Err" => outcome.err \in
              {OriginTimestampMismatch, InvalidMode, InvalidLeapIndicator,
               VersionMismatch, InvalidStratum}
        /\ PassesAllChecks(req, decoded) =>
              /\ DelayAndOffsetFit(decoded, recv_timestamp)
              /\ ResultStepsFit(decoded)

\* what of C17 holds: process_response returns a validation error exactly
\* when a check fails, and a Result whenever every check passes and every
\* arithmetic step stays in range
C17_TotalWhenInRange ==
    pc = "returned" =>
        /\ ~PassesAllChecks(req, decoded) =>
              (outcome.kind = "Err" /\ outcome.err \in
                  {OriginTimestampMismatch, InvalidMode,
                   InvalidLeapIndicator, VersionMismatch, InvalidStratum})
        /\ (/\ PassesAllChecks(req, decoded)
            /\ DelayAndOffsetFit(decoded, recv_timestamp)
            /\ ResultStepsFit(decoded)) => outcome.kind = "Ok"
        /\ outcome.kind = "panic" => build = "debug"

====
